---- MODULE Spec2Model ----
(***************************************************************************)
(* Model of the ghost hunting journal command (src/unnamed/part_002):      *)
(* the Journal class with its possibleGhosts deduction over the GHOSTS     *)
(* catalog, and the CommandContext that owns one Journal, the message it   *)
(* is shown in, two interaction collectors and an idle timeout.            *)
(***************************************************************************)
EXTENDS Integers, Sequences, FiniteSets, TLC

(***************************************************************************)
(* Bounds of the model.                                                    *)
(***************************************************************************)
\* Accepted component interactions (interaction.update calls) per context.
MaxEvents == 3
\* Denial notices sent to users that were not invited.
MaxDenials == 1
\* The idle time (#IDLE_TIME, one hour) counted in clock ticks.
IdleTicks == 1

\* Exceptions out of collect handlers a run goes through.
MaxUncaught == 1

(***************************************************************************)
(* Data: evidence ids, evidence states, the catalog.                       *)
(***************************************************************************)
\* A field that holds no value (undefined / null); never an evidence id.
UNDEFINED == "undefined"

EVIDENCE_IDS == <<"dots", "emf", "freezing", "orb", "writing", "box", "uv">>

EvidenceID == {EVIDENCE_IDS[i] : i \in 1..Len(EVIDENCE_IDS)}

MAX_EVIDENCES == 3

\* enum EvidenceState
PRESENT == 0
INDEFINITE == 1
ABSENT == 2

EvidenceState == {PRESENT, INDEFINITE, ABSENT}

Ghost(name, evidences, guaranteed, fake) ==
    [name |-> name, evidences |-> evidences, guaranteed |-> guaranteed, fake |-> fake]

GHOSTS == <<
    Ghost("Spirit", <<"emf", "box", "writing">>, UNDEFINED, UNDEFINED),
    Ghost("Wraith", <<"emf", "box", "dots">>, UNDEFINED, UNDEFINED),
    Ghost("Phantom", <<"box", "uv", "dots">>, UNDEFINED, UNDEFINED),
    Ghost("Poltergeist", <<"box", "uv", "writing">>, UNDEFINED, UNDEFINED),
    Ghost("Banshee", <<"uv", "orb", "dots">>, UNDEFINED, UNDEFINED),
    Ghost("Jinn", <<"emf", "uv", "freezing">>, UNDEFINED, UNDEFINED),
    Ghost("Mare", <<"box", "orb", "writing">>, UNDEFINED, UNDEFINED),
    Ghost("Revenant", <<"orb", "writing", "freezing">>, UNDEFINED, UNDEFINED),
    Ghost("Shade", <<"emf", "writing", "freezing">>, UNDEFINED, UNDEFINED),
    Ghost("Demon", <<"uv", "writing", "freezing">>, UNDEFINED, UNDEFINED),
    Ghost("Yurei", <<"orb", "freezing", "dots">>, UNDEFINED, UNDEFINED),
    Ghost("Oni", <<"emf", "freezing", "dots">>, UNDEFINED, UNDEFINED),
    Ghost("Yokai", <<"box", "orb", "dots">>, UNDEFINED, UNDEFINED),
    Ghost("Hantu", <<"uv", "orb", "freezing">>, "freezing", UNDEFINED),
    Ghost("Goryo", <<"emf", "uv", "dots">>, "dots", UNDEFINED),
    Ghost("Myling", <<"emf", "uv", "writing">>, UNDEFINED, UNDEFINED),
    Ghost("Onryo", <<"box", "orb", "freezing">>, UNDEFINED, UNDEFINED),
    Ghost("The Twins", <<"emf", "box", "freezing">>, UNDEFINED, UNDEFINED),
    Ghost("Raiju", <<"emf", "orb", "dots">>, UNDEFINED, UNDEFINED),
    Ghost("Obake", <<"emf", "uv", "orb">>, "uv", UNDEFINED),
    Ghost("The Mimic", <<"box", "uv", "freezing">>, UNDEFINED, "orb"),
    Ghost("Moroi", <<"box", "writing", "freezing">>, "box", UNDEFINED),
    Ghost("Deogen", <<"box", "writing", "dots">>, "box", UNDEFINED),
    Ghost("Thaye", <<"orb", "writing", "dots">>, UNDEFINED, UNDEFINED)
>>

(***************************************************************************)
(* Array helpers.                                                          *)
(***************************************************************************)
Range(s) == {s[i] : i \in 1..Len(s)}

\* Array.prototype.includes
includes(s, x) == \E i \in 1..Len(s) : s[i] = x

\* _.difference(array, values)
difference(array, values) ==
    LET keep(x) == ~includes(values, x) IN SelectSeq(array, keep)

(***************************************************************************)
(* class Journal                                                           *)
(***************************************************************************)
\* Key order of the evidences object, the order Object.entries walks it in.
JOURNAL_KEYS == <<"dots", "emf", "uv", "freezing", "orb", "writing", "box">>

\* new Journal(states, availableEvidences): every evidence defaults to
\* INDEFINITE, the given states are assigned over the defaults.
NewJournal(states, availableEvidences) ==
    [evidences |-> [id \in EvidenceID |->
                        IF id \in DOMAIN states THEN states[id] ELSE INDEFINITE],
     availableEvidences |-> availableEvidences]

\* The ids whose state is `state`, in Object.entries order.
entriesWith(journal, state) ==
    LET found(id) == journal.evidences[id] = state IN SelectSeq(JOURNAL_KEYS, found)

\* withoutFake with the fake evidence left in.
withoutFakeKept(present, fake) == present

\* _.difference(present, [fake]): the present evidences that count.
withoutFake(present, fake) == difference(present, <<fake>>)

\* A found evidence the ghost does not have.
hasForeignEvidence(presentWithoutFake, ghostEvidences) ==
    \E i \in 1..Len(presentWithoutFake) :
        ~includes(ghostEvidences, presentWithoutFake[i])

\* exceedsAvailable comparing with MAX_EVIDENCES whatever the evidence count.
exceedsMaximum(presentWithoutFake, availableEvidences) ==
    Len(presentWithoutFake) > MAX_EVIDENCES

\* exceedsAvailable comparing with >= for >.
exceedsAvailableOrEqual(presentWithoutFake, availableEvidences) ==
    Len(presentWithoutFake) >= availableEvidences

\* More evidences found than are possible to find.
exceedsAvailable(presentWithoutFake, availableEvidences) ==
    Len(presentWithoutFake) > availableEvidences

\* tooManyAbsent comparing with < for >.
tooManyAbsentFlipped(absent, ghostEvidences, availableEvidences) ==
    LET inGhost(evidence) == includes(ghostEvidences, evidence)
    IN  Len(SelectSeq(absent, inGhost)) < MAX_EVIDENCES - availableEvidences

\* More of the ghost's evidences absent than the difficulty disables.
tooManyAbsent(absent, ghostEvidences, availableEvidences) ==
    LET inGhost(evidence) == includes(ghostEvidences, evidence)
    IN  Len(SelectSeq(absent, inGhost)) > MAX_EVIDENCES - availableEvidences

\* guaranteedMissing without the test of the absent state.
guaranteedUnobtainableOnly(journal, guaranteed) ==
    LET isPresent == journal.evidences[guaranteed] = PRESENT
        obtainableRemainingEvidences ==
            journal.availableEvidences
                - Cardinality({id \in EvidenceID : journal.evidences[id] = PRESENT})
    IN  ~isPresent /\ obtainableRemainingEvidences < 1

\* guaranteedMissing comparing with <= 1 for < 1.
guaranteedMissingOffByOne(journal, guaranteed) ==
    LET isAbsent == journal.evidences[guaranteed] = ABSENT
        isPresent == journal.evidences[guaranteed] = PRESENT
        obtainableRemainingEvidences ==
            journal.availableEvidences
                - Cardinality({id \in EvidenceID : journal.evidences[id] = PRESENT})
    IN  isAbsent \/ (~isPresent /\ obtainableRemainingEvidences <= 1)

\* The guaranteed evidence is absent or unobtainable.
guaranteedMissing(journal, guaranteed) ==
    LET isAbsent == journal.evidences[guaranteed] = ABSENT
        isPresent == journal.evidences[guaranteed] = PRESENT
        obtainableRemainingEvidences ==
            journal.availableEvidences
                - Cardinality({id \in EvidenceID : journal.evidences[id] = PRESENT})
    IN  isAbsent \/ (~isPresent /\ obtainableRemainingEvidences < 1)

\* fakeAbsent that never excludes.
fakeAbsentIgnored(absent, fake) == FALSE

\* The fake evidence is absent.
fakeAbsent(absent, fake) == fake # UNDEFINED /\ includes(absent, fake)

\* The filter callback of possibleGhosts: TRUE iff the ghost is kept.
ghostFilter(journal, ghost) ==
    LET present == entriesWith(journal, PRESENT)
        absent == entriesWith(journal, ABSENT)
        presentWithoutFake == withoutFake(present, ghost.fake)
    IN  IF hasForeignEvidence(presentWithoutFake, ghost.evidences) THEN FALSE
        ELSE IF exceedsAvailable(presentWithoutFake, journal.availableEvidences)
          THEN FALSE
        ELSE IF tooManyAbsent(absent, ghost.evidences, journal.availableEvidences)
          THEN FALSE
        ELSE IF ghost.guaranteed # UNDEFINED
                /\ guaranteedMissing(journal, ghost.guaranteed)
          THEN FALSE
        ELSE IF fakeAbsent(absent, ghost.fake) THEN FALSE
        ELSE TRUE

\* Journal.possibleGhosts(): the names of the kept ghosts, in catalog order.
possibleGhosts(journal) ==
    LET kept(ghost) == ghostFilter(journal, ghost)
        ghosts == SelectSeq(GHOSTS, kept)
    IN  [i \in 1..Len(ghosts) |-> ghosts[i].name]

\* evidences.evidences[id] = state
setEvidence(journal, id, state) == [journal EXCEPT !.evidences[id] = state]

\* The evidence count set on a new Journal: the evidence states are lost.
setAvailableEvidencesResets(journal, count) == NewJournal(<<>>, count)

\* evidences.availableEvidences = count
setAvailableEvidences(journal, count) == [journal EXCEPT !.availableEvidences = count]

\* Journal.asComponents(): the select menu's default option (index into the
\* options "3", "2", "1") and the style of each evidence button.
asComponents(journal) ==
    [defaultOption |-> MAX_EVIDENCES - journal.availableEvidences,
     styles |-> [id \in EvidenceID |->
                    IF journal.evidences[id] = PRESENT THEN "Primary"
                    ELSE IF journal.evidences[id] = INDEFINITE THEN "Secondary"
                    ELSE "Danger"]]

\* Journal.asComponents() throws a TypeError when the menu has no option for
\* the evidence count: options[MAX_EVIDENCES - availableEvidences] is
\* undefined.
asComponentsThrows(journal) ==
    MAX_EVIDENCES - journal.availableEvidences \notin 0..(MAX_EVIDENCES - 1)

(***************************************************************************)
(* class CommandContext                                                    *)
(***************************************************************************)
\* Discord users that can send interactions.
Users == {"u1", "u2"}

\* The users a command invites (the invite1..invite3 options).
InviteLists == {<<>>, <<"u2">>}

\* interaction.appPermissions of the command: null, a permission set without
\* ViewChannel, or one with it.
AppPermissions == {"null", "none", "ViewChannel"}

\* The values the evidence count select menu offers.
SelectValues == {"3", "2", "1"}

\* Values the menu does not offer, which interaction.values[0] holds when the
\* interaction was not made with the menu as sent.
ForgedValues == {"0", "4"}

VARIABLES
    interaction,      \* the command interaction: [user, appPermissions]
    additionalUsers,  \* the invited users (array of ids)
    pc,               \* position of the constructor's async function
    reply,            \* the reply to the command: <<>> or <<[content, status]>>
    allowedUserIDs,   \* #allowedUserIDs: <<>> (undefined) or the array of ids
    evidences,        \* #evidences: <<>> (undefined) or <<the Journal>>
    message,          \* #message: UNDEFINED or "message"
    collectors,       \* #collectors: <<>> (undefined) or the two collectors
    idleTimeout,      \* #idleTimeout: <<>> (undefined) or <<ticks left>>
    terminated,       \* #terminated
    shown,            \* payload of the last render dispatched: <<>> or <<payload>>
    pendingUpdates,   \* interaction.update() promises not settled yet
    updatesSent,      \* interaction.update() calls made
    rejectedUpdates,  \* interaction.update() promises that rejected
    denials,          \* users told "You were not invited to use this journal."
    deleteRequests,   \* #message.delete() calls made
    timeoutFired,     \* the callback of the idle timeout has run
    uncaught,         \* exceptions thrown by the context's methods
    other             \* the other CommandContext alive: <<>> or <<its fields>>

vars == <<interaction, additionalUsers, pc, reply, allowedUserIDs, evidences,
          message, collectors, idleTimeout, terminated, shown, pendingUpdates,
          updatesSent, rejectedUpdates, denials, deleteRequests, timeoutFired,
          uncaught, other>>

inputs == <<interaction, additionalUsers>>

\* The Journal held by #evidences.
currentJournal == evidences[1]

\* A Journal object shared by the contexts: what a handler writes to its
\* Journal shows in the other context too.
otherContextsShareJournal ==
    other' = IF other = <<>> THEN other
             ELSE <<[other[1] EXCEPT !.evidences = evidences']>>

\* The fields of a CommandContext and of its Journal are the instance's own:
\* a step of this context leaves the other context as it is.
otherContexts == other' = other

\* makeEmbed(): the field of the embed, for a context whose #evidences is set.
makeEmbed(j) ==
    LET names == possibleGhosts(j)
    IN  IF Len(names) > 0
          THEN [name |-> "Possible ghosts", value |-> names]
          ELSE [name |-> "No possible ghosts", value |-> <<>>]

\* What a reply or an update of the journal message carries.
renderPayload(j) == [embed |-> makeEmbed(j), components |-> asComponents(j)]

\* #terminate() that leaves the collectors listening.
terminateKeepsCollectors ==
    /\ idleTimeout' = <<>>
    /\ terminated' = TRUE
    /\ collectors' = collectors
    /\ deleteRequests' = IF message # UNDEFINED THEN deleteRequests + 1 ELSE deleteRequests

\* #terminate() that stops the first collector only.
terminateStopsFirst ==
    /\ idleTimeout' = <<>>
    /\ terminated' = TRUE
    /\ collectors' = [i \in 1..Len(collectors) |->
                         IF i = 1 THEN [collectors[i] EXCEPT !.ended = TRUE]
                                  ELSE collectors[i]]
    /\ deleteRequests' = IF message # UNDEFINED THEN deleteRequests + 1 ELSE deleteRequests

\* #terminate()
terminate ==
    /\ idleTimeout' = <<>>
    /\ terminated' = TRUE
    /\ collectors' = [i \in 1..Len(collectors) |-> [collectors[i] EXCEPT !.ended = TRUE]]
    /\ deleteRequests' = IF message # UNDEFINED THEN deleteRequests + 1 ELSE deleteRequests

\* What #terminate() leaves alone.
terminateFrame == <<inputs, reply, allowedUserIDs, evidences, message>>

\* #canInteract(user) that lets every user in.
canInteractAnyone(user) == TRUE

\* #canInteract(user), for a context whose #allowedUserIDs is set.
canInteract(user) == includes(allowedUserIDs, user)

\* #refreshTimeout() that leaves the timeout running as it was.
refreshTimeoutKeeps(timeout) == timeout

\* #refreshTimeout(): idleTimeout?.refresh()
refreshTimeout(timeout) == IF timeout = <<>> THEN <<>> ELSE <<IdleTicks>>

\* The appPermissions check of the constructor.
canViewChannel(appPermissions) == appPermissions # "null" /\ appPermissions = "ViewChannel"

(***************************************************************************)
(* The constructor: the synchronous part runs up to the first await.       *)
(***************************************************************************)
\* The fields a context starts with.
fieldsUnset ==
    /\ allowedUserIDs = <<>>
    /\ evidences = <<>>
    /\ message = UNDEFINED
    /\ collectors = <<>>
    /\ idleTimeout = <<>>
    /\ terminated = FALSE
    /\ shown = <<>>
    /\ pendingUpdates = 0
    /\ updatesSent = 0
    /\ rejectedUpdates = 0
    /\ denials = <<>>
    /\ deleteRequests = 0
    /\ timeoutFired = FALSE
    /\ uncaught = 0

\* new CommandContext(interaction, additionalUsers) with no ViewChannel
\* permission: the denial is sent and awaited.
constructDenied(user, invited, perms) ==
    /\ interaction = [user |-> user, appPermissions |-> perms]
    /\ additionalUsers = invited
    /\ fieldsUnset
    /\ reply = <<[content |-> "I don't have permission to view this channel.",
                  status |-> "pending"]>>
    /\ pc = "denying"

\* constructWith that allows the invoking user only.
constructWithoutInvited(user, invited, perms, j) ==
    /\ interaction = [user |-> user, appPermissions |-> perms]
    /\ additionalUsers = invited
    /\ allowedUserIDs = <<user>>
    /\ evidences = <<j>>
    /\ message = UNDEFINED
    /\ collectors = <<>>
    /\ idleTimeout = <<>>
    /\ terminated = FALSE
    /\ shown = <<renderPayload(j)>>
    /\ pendingUpdates = 0
    /\ updatesSent = 0
    /\ rejectedUpdates = 0
    /\ denials = <<>>
    /\ deleteRequests = 0
    /\ timeoutFired = FALSE
    /\ uncaught = 0
    /\ reply = <<[content |-> "journal", status |-> "pending"]>>
    /\ pc = "replying"

\* new CommandContext(interaction, additionalUsers) holding a Journal j: the
\* journal is sent as the reply and the reply is awaited.
constructWith(user, invited, perms, j) ==
    /\ interaction = [user |-> user, appPermissions |-> perms]
    /\ additionalUsers = invited
    /\ allowedUserIDs = <<user>> \o invited
    /\ evidences = <<j>>
    /\ message = UNDEFINED
    /\ collectors = <<>>
    /\ idleTimeout = <<>>
    /\ terminated = FALSE
    /\ shown = <<renderPayload(j)>>
    /\ pendingUpdates = 0
    /\ updatesSent = 0
    /\ rejectedUpdates = 0
    /\ denials = <<>>
    /\ deleteRequests = 0
    /\ timeoutFired = FALSE
    /\ uncaught = 0
    /\ reply = <<[content |-> "journal", status |-> "pending"]>>
    /\ pc = "replying"

Init ==
    /\ other = <<>>
    /\ \E user \in Users, invited \in InviteLists, perms \in AppPermissions :
        IF ~canViewChannel(perms)
          THEN constructDenied(user, invited, perms)
          ELSE constructWith(user, invited, perms, NewJournal(<<>>, 3))

(***************************************************************************)
(* The rest of the constructor's async function.                           *)
(***************************************************************************)
\* The awaited denial reply resolves: #terminate() is called, then return.
DenialReplyResolves ==
    /\ pc = "denying"
    /\ pc' = "done"
    /\ reply' = <<[reply[1] EXCEPT !.status = "sent"]>>
    /\ terminate
    /\ otherContexts
    /\ UNCHANGED <<inputs, allowedUserIDs, evidences, message, shown,
                   pendingUpdates, updatesSent, rejectedUpdates, denials, timeoutFired, uncaught>>

\* The awaited denial reply rejects: the await throws and the async function
\* ends there, its rejection unhandled.
DenialReplyRejects ==
    /\ pc = "denying"
    /\ pc' = "threw"
    /\ reply' = <<[reply[1] EXCEPT !.status = "failed"]>>
    /\ otherContexts
    /\ UNCHANGED <<inputs, allowedUserIDs, evidences, message, collectors,
                   idleTimeout, terminated, shown, pendingUpdates, updatesSent, rejectedUpdates,
                   denials, timeoutFired, uncaught, deleteRequests>>

\* interaction.reply() of the journal resolves: the then-callback starts and
\* awaits reply.fetch().
JournalReplyResolves ==
    /\ pc = "replying"
    /\ pc' = "fetching"
    /\ reply' = <<[reply[1] EXCEPT !.status = "sent"]>>
    /\ otherContexts
    /\ UNCHANGED <<inputs, allowedUserIDs, evidences, message, collectors,
                   idleTimeout, terminated, shown, pendingUpdates, updatesSent, rejectedUpdates,
                   denials, timeoutFired, uncaught, deleteRequests>>

\* The catch callback of the reply chain: it evaluates
\* this.#terminate.bind(this) and calls nothing.
replyCatch ==
    UNCHANGED <<idleTimeout, terminated, collectors, deleteRequests>>

\* interaction.reply() of the journal rejects: the catch callback runs,
\* #message is still null and the function returns.
JournalReplyRejects ==
    /\ pc = "replying"
    /\ pc' = "done"
    /\ reply' = <<[reply[1] EXCEPT !.status = "failed"]>>
    /\ replyCatch
    /\ otherContexts
    /\ UNCHANGED <<inputs, allowedUserIDs, evidences, message, shown,
                   pendingUpdates, updatesSent, rejectedUpdates, denials, timeoutFired, uncaught>>

\* reply.fetch() rejects: the catch callback runs, #message is still null and
\* the function returns.
FetchRejects ==
    /\ pc = "fetching"
    /\ pc' = "done"
    /\ replyCatch
    /\ otherContexts
    /\ UNCHANGED <<inputs, reply, allowedUserIDs, evidences, message, shown,
                   pendingUpdates, updatesSent, rejectedUpdates, denials, timeoutFired, uncaught>>

\* reply.fetch() resolves: #message is set, the two collectors are created
\* with their handlers and the idle timeout is armed.
FetchResolves ==
    /\ pc = "fetching"
    /\ pc' = "done"
    /\ message' = "message"
    /\ collectors' = <<[componentType |-> "Button", ended |-> FALSE],
                       [componentType |-> "StringSelect", ended |-> FALSE]>>
    /\ idleTimeout' = <<IdleTicks>>
    /\ otherContexts
    /\ UNCHANGED <<inputs, reply, allowedUserIDs, evidences, terminated, shown,
                   pendingUpdates, updatesSent, rejectedUpdates, denials, timeoutFired, uncaught, deleteRequests>>

(***************************************************************************)
(* Component interactions on the journal message.                          *)
(***************************************************************************)
\* The collector of this component type exists and was not stopped.
listening(componentType) ==
    \E i \in 1..Len(collectors) :
        collectors[i].componentType = componentType /\ ~collectors[i].ended

\* interactionFilter on a user that may not interact: the denial is sent and
\* the interaction is not collected.
filterRejects(user) ==
    /\ Len(denials) < MaxDenials
    /\ denials' = Append(denials, user)
    /\ otherContexts
    /\ UNCHANGED <<inputs, pc, reply, allowedUserIDs, evidences, message,
                   collectors, idleTimeout, terminated, shown, pendingUpdates,
                   updatesSent, rejectedUpdates, deleteRequests, timeoutFired, uncaught>>

\* nextState rotating the other way round.
nextStateBackwards(state) ==
    IF state = ABSENT THEN PRESENT
    ELSE IF state = INDEFINITE THEN ABSENT
    ELSE INDEFINITE

\* The state a click moves an evidence to.
nextState(state) ==
    IF state = ABSENT THEN INDEFINITE
    ELSE IF state = INDEFINITE THEN PRESENT
    ELSE ABSENT

\* parseInt of a select menu value.
parseInt(value) ==
    CASE value = "0" -> 0
      [] value = "1" -> 1
      [] value = "2" -> 2
      [] value = "3" -> 3
      [] value = "4" -> 4

\* #updateMessage(interaction) that sends the Journal as it was before the
\* handler changed it.
updateMessageStale(j) ==
    /\ shown' = <<renderPayload(currentJournal)>>
    /\ pendingUpdates' = pendingUpdates + 1
    /\ updatesSent' = updatesSent + 1
    /\ UNCHANGED uncaught

\* #updateMessage(interaction) for a context whose #evidences is j:
\* interaction.update() is called with the journal's embed and components.
\* When asComponents() throws, the argument of update() is never built: the
\* exception leaves the handler and no update is dispatched.
updateMessage(j) ==
    IF asComponentsThrows(j)
      THEN /\ uncaught < MaxUncaught
           /\ uncaught' = uncaught + 1
           /\ UNCHANGED <<shown, pendingUpdates, updatesSent>>
      ELSE /\ shown' = <<renderPayload(j)>>
           /\ pendingUpdates' = pendingUpdates + 1
           /\ updatesSent' = updatesSent + 1
           /\ UNCHANGED uncaught

\* The collect handler of the button collector.
buttonCollect(customId) ==
    LET state == currentJournal.evidences[customId]
        j == setEvidence(currentJournal, customId, nextState(state))
    IN  /\ updatesSent < MaxEvents
        /\ idleTimeout' = refreshTimeout(idleTimeout)
        /\ evidences' = <<j>>
        /\ updateMessage(j)
        /\ otherContexts
        /\ UNCHANGED <<inputs, pc, reply, allowedUserIDs, message, collectors,
                       terminated, rejectedUpdates, denials, timeoutFired, deleteRequests>>

\* The collect handler of the evidence count collector.
evidenceCountCollect(value) ==
    LET j == setAvailableEvidences(currentJournal, parseInt(value))
    IN  /\ updatesSent < MaxEvents
        /\ idleTimeout' = refreshTimeout(idleTimeout)
        /\ evidences' = <<j>>
        /\ updateMessage(j)
        /\ otherContexts
        /\ UNCHANGED <<inputs, pc, reply, allowedUserIDs, message, collectors,
                       terminated, rejectedUpdates, denials, timeoutFired, deleteRequests>>

\* A user clicks the button of an evidence.
ButtonInteraction(user, customId) ==
    /\ listening("Button")
    /\ IF canInteract(user) THEN buttonCollect(customId) ELSE filterRejects(user)

\* A user picks a value in the evidence count menu.
SelectInteraction(user, value) ==
    /\ listening("StringSelect")
    /\ IF canInteract(user) THEN evidenceCountCollect(value) ELSE filterRejects(user)

(***************************************************************************)
(* Completions and the idle timeout.                                       *)
(***************************************************************************)
\* An interaction.update() promise resolves.
UpdateResolves ==
    /\ pendingUpdates > 0
    /\ pendingUpdates' = pendingUpdates - 1
    /\ otherContexts
    /\ UNCHANGED <<inputs, pc, reply, allowedUserIDs, evidences, message,
                   collectors, idleTimeout, terminated, shown, updatesSent, rejectedUpdates,
                   denials, timeoutFired, uncaught, deleteRequests>>

\* An interaction.update() promise rejects: its catch calls #terminate().
UpdateRejects ==
    /\ pendingUpdates > 0
    /\ pendingUpdates' = pendingUpdates - 1
    /\ rejectedUpdates' = rejectedUpdates + 1
    /\ terminate
    /\ otherContexts
    /\ UNCHANGED <<terminateFrame, pc, shown, updatesSent, denials, timeoutFired, uncaught>>

\* Time passes while the idle timeout is armed.
Tick ==
    /\ idleTimeout # <<>>
    /\ idleTimeout[1] > 0
    /\ idleTimeout' = <<idleTimeout[1] - 1>>
    /\ otherContexts
    /\ UNCHANGED <<inputs, pc, reply, allowedUserIDs, evidences, message,
                   collectors, terminated, shown, pendingUpdates, updatesSent, rejectedUpdates,
                   denials, timeoutFired, uncaught, deleteRequests>>

\* The idle timeout fires: its callback calls #terminate().
IdleTimeoutFires ==
    /\ idleTimeout # <<>>
    /\ idleTimeout[1] = 0
    /\ terminate
    /\ timeoutFired' = TRUE
    /\ otherContexts
    /\ UNCHANGED <<terminateFrame, pc, shown, pendingUpdates, updatesSent, rejectedUpdates, denials, uncaught>>

Next ==
    \/ DenialReplyResolves
    \/ DenialReplyRejects
    \/ JournalReplyResolves
    \/ JournalReplyRejects
    \/ FetchResolves
    \/ FetchRejects
    \/ \E user \in Users, customId \in EvidenceID : ButtonInteraction(user, customId)
    \/ \E user \in Users, value \in SelectValues : SelectInteraction(user, value)
    \/ UpdateResolves
    \/ UpdateRejects
    \/ Tick
    \/ IdleTimeoutFires

Spec == Init /\ [][Next]_vars

(***************************************************************************)
(* The null tests at the head of makeEmbed, #updateMessage and             *)
(* #canInteract: the program together with calls of these methods on a     *)
(* context whose field is still undefined (one that was denied).           *)
(***************************************************************************)
\* The null test that throws and leaves the context as it is.
guardThrowsOnly ==
    /\ uncaught < MaxUncaught
    /\ uncaught' = uncaught + 1
    /\ otherContexts
    /\ UNCHANGED <<terminateFrame, idleTimeout, terminated, collectors,
                   deleteRequests, pc, shown, pendingUpdates, updatesSent,
                   rejectedUpdates, denials, timeoutFired>>

\* The field is null: this.#terminate() and throw new Error(...).
guardFails ==
    /\ uncaught < MaxUncaught
    /\ uncaught' = uncaught + 1
    /\ terminate
    /\ otherContexts
    /\ UNCHANGED <<terminateFrame, pc, shown, pendingUpdates, updatesSent,
                   rejectedUpdates, denials, timeoutFired>>

\* makeEmbed() called while #evidences is undefined.
MakeEmbedEarly == evidences = <<>> /\ guardFails

\* #updateMessage(interaction) called while #evidences is undefined.
UpdateMessageEarly == evidences = <<>> /\ guardFails

\* #canInteract(user) called while #allowedUserIDs is undefined.
CanInteractEarly(user) == allowedUserIDs = <<>> /\ guardFails

GuardNext ==
    \/ Next
    \/ MakeEmbedEarly
    \/ UpdateMessageEarly
    \/ \E user \in Users : CanInteractEarly(user)

GuardSpec == Init /\ [][GuardNext]_vars

(***************************************************************************)
(* The deduction on its own: a context that has just become active, whose  *)
(* Journal was constructed with any evidence states and any evidence       *)
(* count, and the interactions of its user.                                *)
(***************************************************************************)
JournalInit ==
    \E states \in [EvidenceID -> EvidenceState], count \in 1..MAX_EVIDENCES :
        LET j == NewJournal(states, count)
        IN  /\ interaction = [user |-> "u1", appPermissions |-> "ViewChannel"]
            /\ additionalUsers = <<>>
            /\ allowedUserIDs = <<"u1">>
            /\ evidences = <<j>>
            /\ message = "message"
            /\ collectors = <<[componentType |-> "Button", ended |-> FALSE],
                              [componentType |-> "StringSelect", ended |-> FALSE]>>
            /\ idleTimeout = <<IdleTicks>>
            /\ terminated = FALSE
            /\ shown = <<renderPayload(j)>>
            /\ pendingUpdates = 0
            /\ updatesSent = 0
            /\ rejectedUpdates = 0
            /\ denials = <<>>
            /\ deleteRequests = 0
            /\ timeoutFired = FALSE
            /\ uncaught = 0
            /\ other = <<>>
            /\ reply = <<[content |-> "journal", status |-> "sent"]>>
            /\ pc = "done"

JournalNext ==
    \/ \E customId \in EvidenceID : ButtonInteraction(interaction.user, customId)
    \/ \E value \in SelectValues : SelectInteraction(interaction.user, value)

JournalSpec == JournalInit /\ [][JournalNext]_vars

(***************************************************************************)
(* The collect handlers given any value: the active context of JournalInit *)
(* and interactions whose value may be one the menu does not offer.        *)
(***************************************************************************)
AnyValueNext ==
    \/ \E customId \in EvidenceID : ButtonInteraction(interaction.user, customId)
    \/ \E value \in SelectValues \cup ForgedValues :
           SelectInteraction(interaction.user, value)

AnyValueSpec == JournalInit /\ [][AnyValueNext]_vars

(***************************************************************************)
(* Two contexts alive at once, each made by its own command. The variables *)
(* hold the fields of the context the next step belongs to and `other` the *)
(* fields of the second one; Switch passes the turn.                       *)
(***************************************************************************)
\* The fields of the context the variables hold.
thisContext ==
    [interaction |-> interaction, additionalUsers |-> additionalUsers,
     pc |-> pc, reply |-> reply, allowedUserIDs |-> allowedUserIDs,
     evidences |-> evidences, message |-> message, collectors |-> collectors,
     idleTimeout |-> idleTimeout, terminated |-> terminated, shown |-> shown,
     pendingUpdates |-> pendingUpdates, updatesSent |-> updatesSent,
     rejectedUpdates |-> rejectedUpdates, denials |-> denials,
     deleteRequests |-> deleteRequests, timeoutFired |-> timeoutFired,
     uncaught |-> uncaught]

\* The fields of a context of this user's command once it is active: new
\* Journal, reply sent, message fetched, collectors and idle timeout set.
activeContext(user) ==
    LET j == NewJournal(<<>>, MAX_EVIDENCES)
    IN  [interaction |-> [user |-> user, appPermissions |-> "ViewChannel"],
         additionalUsers |-> <<>>,
         pc |-> "done",
         reply |-> <<[content |-> "journal", status |-> "sent"]>>,
         allowedUserIDs |-> <<user>>,
         evidences |-> <<j>>,
         message |-> "message",
         collectors |-> <<[componentType |-> "Button", ended |-> FALSE],
                          [componentType |-> "StringSelect", ended |-> FALSE]>>,
         idleTimeout |-> <<IdleTicks>>,
         terminated |-> FALSE,
         shown |-> <<renderPayload(j)>>,
         pendingUpdates |-> 0, updatesSent |-> 0, rejectedUpdates |-> 0,
         denials |-> <<>>, deleteRequests |-> 0, timeoutFired |-> FALSE,
         uncaught |-> 0]

\* The next event is one of the other context (an interaction on its
\* message, one of its promises, its timeout): no field of either changes.
Switch ==
    /\ other # <<>>
    /\ other' = <<thisContext>>
    /\ interaction' = other[1].interaction
    /\ additionalUsers' = other[1].additionalUsers
    /\ pc' = other[1].pc
    /\ reply' = other[1].reply
    /\ allowedUserIDs' = other[1].allowedUserIDs
    /\ evidences' = other[1].evidences
    /\ message' = other[1].message
    /\ collectors' = other[1].collectors
    /\ idleTimeout' = other[1].idleTimeout
    /\ terminated' = other[1].terminated
    /\ shown' = other[1].shown
    /\ pendingUpdates' = other[1].pendingUpdates
    /\ updatesSent' = other[1].updatesSent
    /\ rejectedUpdates' = other[1].rejectedUpdates
    /\ denials' = other[1].denials
    /\ deleteRequests' = other[1].deleteRequests
    /\ timeoutFired' = other[1].timeoutFired
    /\ uncaught' = other[1].uncaught

\* The evidence and the evidence count the two users work with.
TwoEvidences == {"emf"}
TwoValues == {"2"}

TwoInit ==
    /\ LET c == activeContext("u1")
       IN  /\ interaction = c.interaction
           /\ additionalUsers = c.additionalUsers
           /\ pc = c.pc
           /\ reply = c.reply
           /\ allowedUserIDs = c.allowedUserIDs
           /\ evidences = c.evidences
           /\ message = c.message
           /\ collectors = c.collectors
           /\ idleTimeout = c.idleTimeout
           /\ terminated = c.terminated
           /\ shown = c.shown
           /\ pendingUpdates = c.pendingUpdates
           /\ updatesSent = c.updatesSent
           /\ rejectedUpdates = c.rejectedUpdates
           /\ denials = c.denials
           /\ deleteRequests = c.deleteRequests
           /\ timeoutFired = c.timeoutFired
           /\ uncaught = c.uncaught
    /\ other = <<activeContext("u2")>>

TwoNext ==
    \/ \E customId \in TwoEvidences : ButtonInteraction(interaction.user, customId)
    \/ \E value \in TwoValues : SelectInteraction(interaction.user, value)
    \/ UpdateResolves
    \/ UpdateRejects
    \/ Tick
    \/ IdleTimeoutFires
    \/ Switch

TwoSpec == TwoInit /\ [][TwoNext]_vars

(***************************************************************************)
(* Claims about the deduction, checked under JournalSpec.                  *)
(***************************************************************************)
\* C1: for every evidence assignment and every evidence count in 1..3,
\* possibleGhosts returns exactly the catalog entries that survive the five
\* checks (found evidences other than the fake one all belong to the ghost;
\* no more of them than the count; no more of the ghost's evidences absent
\* than 3 - count; the guaranteed evidence not absent and, unless found, still
\* obtainable; the fake evidence not absent), in catalog order, none twice.
C1_ExactSurvivors ==
    evidences # <<>> =>
        LET j == currentJournal
            ceiling == j.availableEvidences
            present == {a \in EvidenceID : j.evidences[a] = PRESENT}
            absent == {a \in EvidenceID : j.evidences[a] = ABSENT}
            survives(E) ==
                LET attributes == Range(E.evidences)
                    presentReal == present \ {E.fake}
                IN  /\ presentReal \subseteq attributes
                    /\ Cardinality(presentReal) <= ceiling
                    /\ Cardinality(attributes \cap absent) <= 3 - ceiling
                    /\ E.guaranteed # UNDEFINED =>
                          /\ E.guaranteed \notin absent
                          /\ E.guaranteed \notin present =>
                                ceiling - Cardinality(presentReal) >= 1
                    /\ E.fake # UNDEFINED => E.fake \notin absent
            survivors == SelectSeq(GHOSTS, survives)
            names == possibleGhosts(j)
        IN  /\ names = [i \in 1..Len(survivors) |-> survivors[i].name]
            /\ \A m, n \in 1..Len(names) : m # n => names[m] # names[n]
            /\ shown[1].embed.value = names

\* C1 witness: after an accepted interaction, with the fake evidence of The
\* Mimic found and counts and absences in play, some ghosts survive (The
\* Mimic among them) and some do not (Hantu, whose guaranteed evidence can no
\* longer be obtained).
C1_Witness ==
    /\ evidences # <<>>
    /\ updatesSent > 0
    /\ currentJournal.availableEvidences = 2
    /\ currentJournal.evidences["orb"] = PRESENT
    /\ currentJournal.evidences["uv"] = PRESENT
    /\ currentJournal.evidences["dots"] = ABSENT
    /\ includes(shown[1].embed.value, "The Mimic")
    /\ includes(shown[1].embed.value, "Obake")
    /\ includes(shown[1].embed.value, "Banshee")
    /\ ~includes(shown[1].embed.value, "Hantu")

\* C2: with all 7 evidences unknown, possibleGhosts returns all 24 catalog
\* names in catalog order, for every evidence count in 1..3.
C2_AllUnknownYieldsCatalog ==
    (evidences # <<>> /\ \A a \in EvidenceID : currentJournal.evidences[a] = INDEFINITE)
        => /\ possibleGhosts(currentJournal) = [i \in 1..Len(GHOSTS) |-> GHOSTS[i].name]
           /\ Len(possibleGhosts(currentJournal)) = 24
           /\ shown[1].embed.value = possibleGhosts(currentJournal)

\* C2 witness: the evidence count was set to 1 with every evidence unknown,
\* and the whole catalog is shown.
C2_Witness ==
    /\ evidences # <<>>
    /\ updatesSent > 0
    /\ currentJournal.availableEvidences = 1
    /\ \A a \in EvidenceID : currentJournal.evidences[a] = INDEFINITE
    /\ Len(shown[1].embed.value) = 24

\* C3: for every ghost of the catalog, with evidence count 3, each of the
\* ghost's evidences present and every other evidence unknown, the result of
\* possibleGhosts contains the ghost.
C3_OwnEvidencesKeepGhost ==
    \A i \in 1..Len(GHOSTS) :
        (/\ evidences # <<>>
         /\ currentJournal.availableEvidences = 3
         /\ \A a \in EvidenceID :
               currentJournal.evidences[a] =
                   IF a \in Range(GHOSTS[i].evidences) THEN PRESENT ELSE INDEFINITE)
            => /\ includes(possibleGhosts(currentJournal), GHOSTS[i].name)
               /\ includes(shown[1].embed.value, GHOSTS[i].name)

\* C3 witness: the third of Hantu's evidences was just clicked to present,
\* at evidence count 3 with the others unknown, and Hantu is shown.
C3_Witness ==
    /\ evidences # <<>>
    /\ updatesSent > 0
    /\ currentJournal.availableEvidences = 3
    /\ \A a \in EvidenceID :
          currentJournal.evidences[a] =
              IF a \in {"uv", "orb", "freezing"} THEN PRESENT ELSE INDEFINITE
    /\ includes(shown[1].embed.value, "Hantu")

\* C4 as claimed: a step that sets to absent an evidence that every currently
\* possible ghost has, whatever its state before, adds no ghost to the result.
C4_AbsentNeverGrows ==
    [][evidences # <<>> =>
          LET before == Range(possibleGhosts(currentJournal))
              common == {a \in EvidenceID :
                            \A i \in 1..Len(GHOSTS) :
                                GHOSTS[i].name \in before
                                    => includes(GHOSTS[i].evidences, a)}
          IN  \A a \in common :
                  evidences' = <<setEvidence(currentJournal, a, ABSENT)>>
                      => Range(possibleGhosts(evidences'[1])) \subseteq before]_vars

\* C4 amended: for every evidence that is not present (unknown or absent) and
\* that every currently possible ghost has, setting it to absent adds no ghost
\* to the result.
C4_AbsentFromNotPresentNeverGrows ==
    evidences # <<>> =>
        LET before == Range(possibleGhosts(currentJournal))
            common == {a \in EvidenceID :
                          \A i \in 1..Len(GHOSTS) :
                              GHOSTS[i].name \in before
                                  => includes(GHOSTS[i].evidences, a)}
        IN  \A a \in common :
                currentJournal.evidences[a] # PRESENT
                    => Range(possibleGhosts(setEvidence(currentJournal, a, ABSENT)))
                           \subseteq before

\* C4 witness: after an accepted interaction several ghosts are possible, an
\* unknown evidence belongs to all of them, and setting it to absent removes
\* at least one of them.
C4_Witness ==
    /\ evidences # <<>>
    /\ updatesSent > 0
    /\ Len(shown[1].embed.value) > 1
    /\ LET before == Range(possibleGhosts(currentJournal))
       IN  \E a \in EvidenceID :
              /\ currentJournal.evidences[a] = INDEFINITE
              /\ \A i \in 1..Len(GHOSTS) :
                    GHOSTS[i].name \in before => includes(GHOSTS[i].evidences, a)
              /\ Range(possibleGhosts(setEvidence(currentJournal, a, ABSENT))) # before

(***************************************************************************)
(* Claims about the context, checked under Spec.                           *)
(***************************************************************************)
\* C5: an accepted click on an evidence moves it exactly one step in the
\* rotation absent -> unknown -> present -> absent, so that three such steps
\* from any state lead back to it.
C5_ToggleRotates ==
    [][\A user \in Users, a \in EvidenceID :
          (ButtonInteraction(user, a) /\ user \in Range(allowedUserIDs))
            => LET old == currentJournal.evidences[a]
                   new == evidences'[1].evidences[a]
               IN  /\ old = ABSENT => new = INDEFINITE
                   /\ old = INDEFINITE => new = PRESENT
                   /\ old = PRESENT => new = ABSENT
                   /\ nextState(nextState(new)) = old]_vars

\* C5 witness: two accepted clicks have taken an evidence from unknown over
\* present to absent.
C5_Witness ==
    /\ evidences # <<>>
    /\ updatesSent = 2
    /\ currentJournal.evidences["emf"] = ABSENT
    /\ shown[1].components.styles["emf"] = "Danger"

\* C6: a click or an evidence count choice by a user that is not allowed
\* leaves the evidence states, the evidence count and the idle timeout as they
\* were, sends that user a denial, dispatches no render and leaves the context
\* active.
C6_UninvitedChangesNothing ==
    [][\A user \in Users :
          (/\ user \notin Range(allowedUserIDs)
           /\ \/ \E a \in EvidenceID : ButtonInteraction(user, a)
              \/ \E value \in SelectValues : SelectInteraction(user, value))
            => /\ evidences' = evidences
               /\ idleTimeout' = idleTimeout
               /\ denials' = Append(denials, user)
               /\ updatesSent' = updatesSent
               /\ pendingUpdates' = pendingUpdates
               /\ shown' = shown
               /\ terminated' = terminated
               /\ collectors' = collectors
               /\ message' = message
               /\ deleteRequests' = deleteRequests]_vars

\* C6 witness: an uninvited user was sent the denial while the context is
\* active, after an accepted interaction and with the idle timeout part run.
C6_Witness ==
    /\ denials # <<>>
    /\ denials[1] \notin Range(allowedUserIDs)
    /\ ~terminated
    /\ listening("Button")
    /\ updatesSent = 1
    /\ idleTimeout = <<0>>

\* C7: the step that makes a context active leaves it with the invoking user
\* and the invited users as its allowed users (and nobody else), a Journal of
\* evidence count 3 with every evidence unknown, that state rendered, and the
\* idle timeout armed; interactions of each of those users are collected.
C7_ActivationState ==
    [][FetchResolves =>
          /\ Range(allowedUserIDs') = {interaction.user} \cup Range(additionalUsers)
          /\ evidences' # <<>>
          /\ evidences'[1].availableEvidences = 3
          /\ \A a \in EvidenceID : evidences'[1].evidences[a] = INDEFINITE
          /\ shown' = <<renderPayload(evidences'[1])>>
          /\ reply'[1].status = "sent"
          /\ idleTimeout' = <<IdleTicks>>
          /\ ~terminated'
          /\ \A i \in 1..Len(collectors') : ~collectors'[i].ended
          /\ \A user \in {interaction.user} \cup Range(additionalUsers) :
                /\ (listening("Button") /\ listening("StringSelect"))'
                /\ canInteract(user)']_vars

\* C7 witness: a context with an invited user has just become active.
C7_Witness ==
    /\ pc = "done"
    /\ listening("Button")
    /\ listening("StringSelect")
    /\ additionalUsers = <<"u2">>
    /\ interaction.user = "u1"
    /\ idleTimeout = <<IdleTicks>>
    /\ updatesSent = 0
    /\ denials = <<>>
    /\ ~terminated

\* C8: when the ViewChannel check fails, nothing is ever acquired (no allowed
\* users, Journal, message, collectors or idle timeout, nothing rendered), and
\* once the constructor's async function has ended, on any path, the context
\* is terminated.
C8_DeniedEndsTerminated ==
    ~canViewChannel(interaction.appPermissions) =>
        /\ allowedUserIDs = <<>>
        /\ evidences = <<>>
        /\ message = UNDEFINED
        /\ collectors = <<>>
        /\ idleTimeout = <<>>
        /\ shown = <<>>
        /\ pc \in {"done", "threw"} => terminated

\* C8 witness: the denial was sent and the context terminated with nothing
\* acquired.
C8_Witness ==
    /\ ~canViewChannel(interaction.appPermissions)
    /\ pc = "done"
    /\ reply[1].status = "sent"
    /\ terminated
    /\ deleteRequests = 0

\* C9: once the constructor's async function has ended for a command that
\* passed the ViewChannel check, the context is terminated if the setup failed
\* (the reply or the fetch of its message) and has become active otherwise.
C9_SetupEndsActiveOrTerminated ==
    (canViewChannel(interaction.appPermissions) /\ pc \in {"done", "threw"}) =>
        IF message = UNDEFINED THEN terminated ELSE collectors # <<>>

\* C9 witness: the setup succeeded and the context is active.
C9_Witness ==
    /\ canViewChannel(interaction.appPermissions)
    /\ pc = "done"
    /\ message # UNDEFINED
    /\ listening("Button")
    /\ ~terminated

\* C10: when an update of the journal message fails while the context is
\* active, the idle timeout is cleared, both collectors are stopped, one
\* delete of the message is requested, the context is terminated, and no
\* further update is dispatched.
C10_FailedUpdateTerminates ==
    [][(UpdateRejects /\ ~terminated /\ listening("Button")) =>
          /\ idleTimeout' = <<>>
          /\ Len(collectors') = 2
          /\ \A i \in 1..Len(collectors') : collectors'[i].ended
          /\ deleteRequests' = deleteRequests + 1
          /\ terminated'
          /\ updatesSent' = updatesSent
          /\ pendingUpdates' = pendingUpdates - 1
          /\ shown' = shown]_vars

\* C10 witness: the one update that was dispatched has failed and the context
\* is terminated with the message's delete requested.
C10_Witness ==
    /\ updatesSent = 1
    /\ rejectedUpdates = 1
    /\ pendingUpdates = 0
    /\ terminated
    /\ idleTimeout = <<>>
    /\ ~listening("Button")
    /\ ~listening("StringSelect")
    /\ deleteRequests = 1

(***************************************************************************)
(* Claims about termination, checked under Spec.                           *)
(***************************************************************************)
\* C11: once the idle timeout of an active context has fired, the context is
\* terminated and, over its whole run, exactly one delete of the journal
\* message has been requested, whatever update promises settle afterwards.
C11_IdleExpiryOneCleanup ==
    timeoutFired => (terminated /\ idleTimeout = <<>> /\ deleteRequests = 1)

\* C11 witness: the idle timeout fired on a context that saw no interaction,
\* and the one delete was requested.
C11_Witness ==
    /\ timeoutFired
    /\ terminated
    /\ updatesSent = 0
    /\ deleteRequests = 1

\* C12: #terminate() on a context that is already terminated (called by the
\* catch of an update that fails after the termination) changes none of the
\* context's fields and requests no further delete of the message.
C12_TerminateIdempotent ==
    [][(terminated /\ UpdateRejects) =>
          /\ deleteRequests' = deleteRequests
          /\ terminated' = terminated
          /\ idleTimeout' = idleTimeout
          /\ collectors' = collectors
          /\ evidences' = evidences]_vars

\* C12 witness: the context was terminated once, by a failed update, while
\* another update was still pending.
C12_Witness ==
    /\ terminated
    /\ rejectedUpdates = 1
    /\ deleteRequests = 1
    /\ pendingUpdates > 0

\* C13: once #terminated is true it stays true, and from then on no click and
\* no evidence count change is applied: the Journal (evidence states and
\* evidence count) stays as it is and no update is dispatched any more, also
\* while updates dispatched before the termination are still settling.
C13_TerminatedAbsorbing ==
    [][terminated =>
          /\ terminated'
          /\ evidences' = evidences
          /\ updatesSent' = updatesSent
          /\ pendingUpdates' <= pendingUpdates
          /\ shown' = shown
          /\ ~listening("Button")' /\ ~listening("StringSelect")']_vars

\* C13 witness: the idle timeout terminated a context whose two updates were
\* still pending, and one of them has settled since.
C13_Witness ==
    /\ terminated
    /\ timeoutFired
    /\ updatesSent = 2
    /\ pendingUpdates = 1
    /\ rejectedUpdates = 0

(***************************************************************************)
(* Claims about the handling of interactions, checked under Spec.          *)
(***************************************************************************)
\* C14: a collect handler runs to its end before anything else happens: each
\* step that changes the Journal or dispatches an update does both, in one
\* piece, and the update carries possibleGhosts of the Journal as the handler
\* left it, under "No possible ghosts" exactly when that list is empty, with
\* the buttons and the menu showing the same Journal.
C14_RenderMatchesJournal ==
    [][(evidences' # evidences \/ updatesSent' # updatesSent \/ shown' # shown) =>
          LET names == possibleGhosts(evidences'[1])
          IN  /\ updatesSent' = updatesSent + 1
              /\ pendingUpdates' = pendingUpdates + 1
              /\ shown'[1].embed.value = names
              /\ (shown'[1].embed.name = "No possible ghosts") <=> (Len(names) = 0)
              /\ (shown'[1].embed.name = "Possible ghosts") <=> (Len(names) > 0)
              /\ shown'[1].components.defaultOption =
                     MAX_EVIDENCES - evidences'[1].availableEvidences
              /\ \A id \in EvidenceID :
                     (shown'[1].components.styles[id] = "Primary")
                         <=> (evidences'[1].evidences[id] = PRESENT)]_vars

\* C14 witness: three interactions were handled and the last update shows
\* "No possible ghosts" for a Journal no ghost fits.
C14_Witness ==
    /\ updatesSent = 3
    /\ possibleGhosts(currentJournal) = <<>>
    /\ shown[1].embed.name = "No possible ghosts"
    /\ currentJournal.evidences["emf"] = PRESENT

\* C15: cleanup on every exit path, in its finite form: whenever the journal
\* was sent as the reply and the context has come to rest (the constructor's
\* async function has ended, no idle timeout is armed, no update is pending),
\* a delete of the journal message has been requested.
C15_RenderedSurfaceDeleted ==
    (/\ reply[1].content = "journal"
     /\ reply[1].status = "sent"
     /\ pc = "done"
     /\ idleTimeout = <<>>
     /\ pendingUpdates = 0) => deleteRequests >= 1

\* C15 witness: a journal that became active came to rest after its idle
\* timeout fired, with the delete requested.
C15_Witness ==
    /\ reply[1].content = "journal"
    /\ reply[1].status = "sent"
    /\ pc = "done"
    /\ timeoutFired
    /\ pendingUpdates = 0
    /\ updatesSent = 1
    /\ deleteRequests = 1

(***************************************************************************)
(* Claim about the values of the evidence count menu, checked under        *)
(* AnyValueSpec.                                                           *)
(***************************************************************************)
\* C16: an evidence count interaction whose value is not 1, 2 or 3 is turned
\* down before the Journal is touched, so the evidence count of the Journal
\* is 1, 2 or 3 in every state.
C16_CeilingInRange ==
    evidences # <<>> => currentJournal.availableEvidences \in 1..MAX_EVIDENCES

\* C16 witness: evidence count interactions were handled and the evidence
\* count is one the menu offers.
C16_Witness ==
    /\ updatesSent = 2
    /\ currentJournal.availableEvidences = 1
    /\ shown[1].components.defaultOption = 2

(***************************************************************************)
(* Claim about two contexts, checked under TwoSpec.                        *)
(***************************************************************************)
\* C17: with two contexts alive, a step of one of them (an interaction, an
\* update that settles or fails, its idle timeout, its termination) leaves
\* the other's Journal (evidence states and evidence count), allowed users,
\* idle timeout, collectors and terminated flag as they were.
C17_ContextsIndependent ==
    [][(other # <<>> /\ ~Switch) =>
          /\ other'[1].evidences = other[1].evidences
          /\ other'[1].allowedUserIDs = other[1].allowedUserIDs
          /\ other'[1].idleTimeout = other[1].idleTimeout
          /\ other'[1].collectors = other[1].collectors
          /\ other'[1].terminated = other[1].terminated
          /\ other'[1].deleteRequests = other[1].deleteRequests
          /\ other' = other]_vars

\* C17 witness: one context was used and then terminated by a failed update
\* while the other, used differently, is still active with its timeout armed.
C17_Witness ==
    /\ other # <<>>
    /\ other[1].terminated
    /\ other[1].rejectedUpdates = 1
    /\ other[1].evidences[1].evidences["emf"] = PRESENT
    /\ ~terminated
    /\ listening("Button")
    /\ idleTimeout = <<IdleTicks>>
    /\ currentJournal.evidences["emf"] = ABSENT
    /\ currentJournal.availableEvidences = 2

(***************************************************************************)
(* Further claims about the deduction, checked under JournalSpec.          *)
(***************************************************************************)
\* C18: for every evidence count, ghost and Journal, a ghost is left out when
\* more evidences are present, its fake evidence aside, than the evidence
\* count. With evidence count 1 and exactly two evidences present, the rest
\* unknown, every ghost for which both count is left out, and a ghost for
\* which one of them is its fake evidence and the other is one of its
\* evidences is kept.
C18_CountCheck ==
    evidences # <<>> =>
        LET j == currentJournal
            names == possibleGhosts(j)
            present == {a \in EvidenceID : j.evidences[a] = PRESENT}
            real(ghost) == present \ {ghost.fake}
        IN  /\ \A i \in 1..Len(GHOSTS) :
                   Cardinality(real(GHOSTS[i])) > j.availableEvidences
                       => ~includes(names, GHOSTS[i].name)
            /\ (/\ j.availableEvidences = 1
                /\ Cardinality(present) = 2
                /\ \A a \in EvidenceID \ present : j.evidences[a] = INDEFINITE)
                   => \A i \in 1..Len(GHOSTS) :
                        /\ Cardinality(real(GHOSTS[i])) = 2
                               => ~includes(names, GHOSTS[i].name)
                        /\ (/\ Cardinality(real(GHOSTS[i])) = 1
                            /\ real(GHOSTS[i]) \subseteq Range(GHOSTS[i].evidences))
                               => includes(names, GHOSTS[i].name)

\* C18 witness: at evidence count 1 the second of orb and uv was just clicked
\* to present, the rest unknown: only The Mimic, whose fake evidence is orb,
\* is shown.
C18_Witness ==
    /\ updatesSent > 0
    /\ currentJournal.availableEvidences = 1
    /\ \A a \in EvidenceID :
          currentJournal.evidences[a] =
              IF a \in {"orb", "uv"} THEN PRESENT ELSE INDEFINITE
    /\ shown[1].embed.value = <<"The Mimic">>

\* C19: the ghosts with a guaranteed evidence are Hantu, Goryo, Obake, Moroi
\* and Deogen; for every evidence count and Journal such a ghost is left out
\* when its guaranteed evidence is absent, and when that evidence is unknown
\* and the evidence count less the present evidences (the ghost's fake
\* evidence aside) is below 1. Hantu is left out when freezing is absent.
C19_GuaranteedCheck ==
    evidences # <<>> =>
        LET j == currentJournal
            names == possibleGhosts(j)
            present == {a \in EvidenceID : j.evidences[a] = PRESENT}
        IN  /\ {GHOSTS[i].name : i \in {k \in 1..Len(GHOSTS) :
                                          GHOSTS[k].guaranteed # UNDEFINED}}
                   = {"Hantu", "Goryo", "Obake", "Moroi", "Deogen"}
            /\ \A i \in 1..Len(GHOSTS) :
                   GHOSTS[i].guaranteed # UNDEFINED =>
                       LET state == j.evidences[GHOSTS[i].guaranteed]
                           realPresent == Cardinality(present \ {GHOSTS[i].fake})
                       IN  /\ state = ABSENT => ~includes(names, GHOSTS[i].name)
                           /\ (state = INDEFINITE
                                 /\ j.availableEvidences - realPresent < 1)
                                  => ~includes(names, GHOSTS[i].name)
            /\ j.evidences["freezing"] = ABSENT => ~includes(names, "Hantu")

\* C19 witness: at evidence count 2 freezing was just clicked to absent, the
\* rest unknown, and Hantu is not shown while Onryo still is.
C19_Witness ==
    /\ updatesSent > 0
    /\ currentJournal.availableEvidences = 2
    /\ \A a \in EvidenceID :
          currentJournal.evidences[a] = IF a = "freezing" THEN ABSENT ELSE INDEFINITE
    /\ ~includes(shown[1].embed.value, "Hantu")
    /\ includes(shown[1].embed.value, "Onryo")

\* C20: The Mimic, whose fake evidence is orb, is left out whenever orb is
\* absent, at every evidence count; it is kept when orb is present and the
\* rest unknown; and orb does not count: at evidence count 3 with orb, box, uv
\* and freezing present and nothing else present it is kept.
C20_MimicFake ==
    evidences # <<>> =>
        LET j == currentJournal
            names == possibleGhosts(j)
        IN  /\ \E i \in 1..Len(GHOSTS) :
                   GHOSTS[i].name = "The Mimic" /\ GHOSTS[i].fake = "orb"
            /\ j.evidences["orb"] = ABSENT => ~includes(names, "The Mimic")
            /\ (/\ j.evidences["orb"] = PRESENT
                /\ \A a \in EvidenceID \ {"orb"} : j.evidences[a] = INDEFINITE)
                   => includes(names, "The Mimic")
            /\ (/\ j.availableEvidences = 3
                /\ \A a \in {"orb", "box", "uv", "freezing"} : j.evidences[a] = PRESENT
                /\ \A a \in {"dots", "emf", "writing"} : j.evidences[a] # PRESENT)
                   => includes(names, "The Mimic")

\* C20 witness: at evidence count 3 the last of orb, box, uv and freezing was
\* just clicked to present, the rest unknown, and The Mimic alone is shown.
C20_Witness ==
    /\ updatesSent > 0
    /\ currentJournal.availableEvidences = 3
    /\ \A a \in EvidenceID :
          currentJournal.evidences[a] =
              IF a \in {"orb", "box", "uv", "freezing"} THEN PRESENT ELSE INDEFINITE
    /\ shown[1].embed.value = <<"The Mimic">>

(***************************************************************************)
(* Claims about the idle timeout, the frame of the handlers and the        *)
(* initialisation of the fields, checked under Spec.                       *)
(***************************************************************************)
\* C21: each click and each evidence count change that is handled sets the
\* idle timeout back to the whole idle time; the timeout's callback runs only
\* on a context that is not terminated and whose timeout has counted the
\* whole idle time down since it was last set; and once the context is
\* terminated the timeout is gone: it does not fire and is not set again.
C21_IdleTimeoutRearmed ==
    [][/\ (updatesSent' = updatesSent + 1 \/ evidences' # evidences)
            => idleTimeout' = <<IdleTicks>>
       /\ (timeoutFired' /\ ~timeoutFired)
            => (~terminated /\ idleTimeout = <<0>> /\ terminated')
       /\ (/\ idleTimeout # <<>>
           /\ idleTimeout' \notin {<<>>, idleTimeout, <<IdleTicks>>})
            => (idleTimeout'[1] = idleTimeout[1] - 1 /\ updatesSent' = updatesSent)
       /\ terminated
            => (idleTimeout = <<>> /\ idleTimeout' = <<>>
                /\ timeoutFired' = timeoutFired)]_vars

\* C21 witness: two interactions were handled, their updates settled, and the
\* idle timeout fired afterwards.
C21_Witness ==
    /\ timeoutFired
    /\ updatesSent = 2
    /\ pendingUpdates = 0
    /\ rejectedUpdates = 0
    /\ deleteRequests = 1

\* C22: an evidence count interaction of an allowed user with value 1, 2 or 3
\* sets the evidence count to that value and leaves the seven evidence states
\* as they were; a click of an allowed user on an evidence leaves the evidence
\* count and the six other evidence states as they were; neither changes the
\* allowed users, the terminated flag, the collectors or the message.
C22_HandlersFrame ==
    [][/\ \A user \in Users, c \in 1..MAX_EVIDENCES :
             (canInteract(user) /\ SelectInteraction(user, <<"1", "2", "3">>[c]))
                => /\ evidences'[1].availableEvidences = c
                   /\ \A a \in EvidenceID :
                         evidences'[1].evidences[a] = evidences[1].evidences[a]
                   /\ UNCHANGED <<allowedUserIDs, terminated, collectors, message, pc>>
       /\ \A user \in Users, id \in EvidenceID :
             (canInteract(user) /\ ButtonInteraction(user, id))
                => /\ evidences'[1].availableEvidences = evidences[1].availableEvidences
                   /\ \A a \in EvidenceID \ {id} :
                         evidences'[1].evidences[a] = evidences[1].evidences[a]
                   /\ evidences'[1].evidences[id] # evidences[1].evidences[id]
                   /\ UNCHANGED <<allowedUserIDs, terminated, collectors, message, pc>>]_vars

\* C22 witness: emf was clicked to present and the evidence count then set to
\* 2: both show in the Journal of the still active context.
C22_Witness ==
    /\ updatesSent = 2
    /\ ~terminated
    /\ listening("StringSelect")
    /\ currentJournal.availableEvidences = 2
    /\ \A a \in EvidenceID :
          currentJournal.evidences[a] = IF a = "emf" THEN PRESENT ELSE INDEFINITE

(***************************************************************************)
(* Claim about the null tests, checked under GuardSpec.                    *)
(***************************************************************************)
\* C23: the program itself calls #canInteract, #updateMessage and makeEmbed
\* (the filter and the handlers of an interaction, every update dispatched)
\* only on a context whose #allowedUserIDs and #evidences are set; and when
\* one of them is called while its field is undefined, the context becomes
\* terminated and an error is thrown, nothing else being done: no update is
\* dispatched, no denial sent and the fields stay undefined.
C23_InitialisedBeforeUse ==
    [][/\ (\/ \E user \in Users, id \in EvidenceID : ButtonInteraction(user, id)
           \/ \E user \in Users, value \in SelectValues : SelectInteraction(user, value)
           \/ updatesSent' # updatesSent
           \/ shown' # shown
           \/ denials' # denials)
             => (allowedUserIDs # <<>> /\ evidences # <<>>)
       /\ ((MakeEmbedEarly \/ UpdateMessageEarly) /\ evidences = <<>>)
             => /\ terminated' /\ uncaught' = uncaught + 1
                /\ UNCHANGED <<evidences, allowedUserIDs, shown, updatesSent,
                               pendingUpdates, denials>>
       /\ ((\E user \in Users : CanInteractEarly(user)) /\ allowedUserIDs = <<>>)
             => /\ terminated' /\ uncaught' = uncaught + 1
                /\ UNCHANGED <<evidences, allowedUserIDs, shown, updatesSent,
                               pendingUpdates, denials>>]_vars

\* C23 witness: the denial reply of a denied context failed, which left the
\* context not terminated, and a method called on its undefined fields has
\* terminated it and thrown.
C23_Witness ==
    /\ pc = "threw"
    /\ evidences = <<>>
    /\ allowedUserIDs = <<>>
    /\ uncaught = 1
    /\ terminated
    /\ deleteRequests = 0

====
